---- MODULE Spec2Model ----
(***************************************************************************)
(* Credit-sales ledger of the point-of-sale application: sales on credit   *)
(* ("fiado"), payments ("abonos"), the customer's cached debt, and the UI  *)
(* handlers that allocate a customer payment over the pending sales.       *)
(*                                                                         *)
(* Money: the code keeps amounts in Python floats.  Every amount of this   *)
(* model is a whole number of currency units, on which float addition,     *)
(* subtraction, comparison and min are exact, so Integers model them       *)
(* faithfully; amounts with a fractional part are outside the model.       *)
(*                                                                         *)
(* Store: rows get fresh ids (autoincrement primary keys).  The foreign    *)
(* key abonos.venta_id -> ventas.id is enforced or not depending on the    *)
(* database the DATABASE_URL names; fkEnforced is fixed at start-up.       *)
(***************************************************************************)
EXTENDS Integers, Sequences, FiniteSets, TLC

\* ------------------------------------------------------------------ bounds
MaxVentas == 2    \* sales ever created
MaxAbonos == 2    \* payments ever created
MaxMonto  == 3    \* largest amount a clerk types in
MaxFallos == 1    \* times a repository operation is interrupted
MaxSesiones == 3  \* login sessions ever created
MaxReloj == 11    \* hours the clock runs while users log in and out

\* ---------------------------------------------------------- fixed universe
Clientes  == {1, 2}
Cajeros   == {1, 2}    \* clerks, each with a store session of its own          \* customers created by init_db
Productos == {1}             \* products created by init_db
NoId      == 0               \* Python None for an Optional[int] id
NoFecha   == 0               \* Python None for an Optional[datetime]

precio_venta == [p \in Productos |-> 2]
StockInicial == [p \in Productos |-> 3]

VentaIds == 1..MaxVentas
AbonoIds == 1..MaxAbonos
Montos   == (-1)..MaxMonto

\* A line item as nueva_venta_page builds it: a product of the store
\* (descontar_stock = True) or a manually typed one (no producto_id,
\* descontar_stock = False).
ItemBD(p, cant) ==
    [producto_id |-> p, cantidad |-> cant,
     subtotal |-> precio_venta[p] * cant, descontar_stock |-> TRUE]

ItemManual(cant, precio) ==
    [producto_id |-> NoId, cantidad |-> cant,
     subtotal |-> precio * cant, descontar_stock |-> FALSE]

\* What a sale's line items can be changed to.
CarritosEdicion ==
    { <<ItemManual(1, 1)>> }

\* The carts a clerk can put together (never empty).
Carritos ==
    { <<ItemBD(1, 1), ItemManual(1, 1)>>, <<ItemManual(1, 1)>> }

VARIABLES
    clientes,       \* table clientes: id -> [deuda_total, activo]
    productos,      \* table productos: id -> cantidad_stock
    ventas,         \* table ventas: id -> Venta row (domain = existing ids)
    abonos,         \* table abonos: id -> [venta_id, monto]
    nextVentaId,    \* next primary key of ventas
    nextAbonoId,    \* next primary key of abonos
    now,            \* datetime.now() as a logical clock: rows inserted so far
    fkEnforced,     \* the store enforces abonos.venta_id -> ventas.id
    todos_clientes, \* ClientesPage.todos_clientes: id -> deuda_total shown
    res,            \* outcome of the last handler
    sesiones,       \* clerk -> what its open session has read so far
    fallos,         \* times a repository operation was interrupted
    tabla_sesiones  \* table sesiones: id -> Sesion row (login sessions)

vars == <<clientes, productos, ventas, abonos, nextVentaId, nextAbonoId,
          now, fkEnforced, todos_clientes, res, sesiones, fallos,
          tabla_sesiones>>

\* The committed store as one value, so that repository operations are
\* functions from store to store.
DB ==
    [clientes |-> clientes, productos |-> productos, ventas |-> ventas,
     abonos |-> abonos, nextVentaId |-> nextVentaId,
     nextAbonoId |-> nextAbonoId, now |-> now, fkEnforced |-> fkEnforced]

\* ----------------------------------------------------------------- helpers
\* min() that hands back its first argument
PrimerArgumento(a, b) == a

\* Python's min of two amounts
Min(a, b) == IF a <= b THEN a ELSE b

RECURSIVE SumSubtotales(_)
SumSubtotales(items) ==
    IF items = <<>> THEN 0
    ELSE Head(items).subtotal + SumSubtotales(Tail(items))

RECURSIVE SumMonto(_, _)
SumMonto(ab, ids) ==
    IF ids = {} THEN 0
    ELSE LET i == CHOOSE x \in ids : TRUE
         IN  ab[i].monto + SumMonto(ab, ids \ {i})

RECURSIVE SumResto(_, _)
SumResto(vs, ids) ==
    IF ids = {} THEN 0
    ELSE LET i == CHOOSE x \in ids : TRUE
         IN  vs[i].resto + SumResto(vs, ids \ {i})

\* function f without the row k (session.delete + commit)
Sin(f, k) == [x \in (DOMAIN f) \ {k} |-> f[x]]

\* function f with the row k set to v (session.add + commit)
Con(f, k, v) == [x \in (DOMAIN f) \cup {k} |-> IF x = k THEN v ELSE f[x]]

\* ------------------------------------------------------------ models/venta
\* calcular_totales that derives resto from the total the row held before
calcular_totales_resto_previo(v, t) ==
    LET total == SumSubtotales(v.productos)
        resto == v.total - v.abonado
        pagado == resto <= 0
    IN  [v EXCEPT !.total = total,
                  !.resto = resto,
                  !.pagado_completamente = pagado,
                  !.fecha_pago_completo =
                      IF pagado /\ v.fecha_pago_completo = NoFecha
                      THEN t ELSE v.fecha_pago_completo]

\* calcular_totales that stamps the full payment every time resto <= 0
calcular_totales_reestampa(v, t) ==
    LET total == SumSubtotales(v.productos)
        resto == total - v.abonado
        pagado == resto <= 0
    IN  [v EXCEPT !.total = total,
                  !.resto = resto,
                  !.pagado_completamente = pagado,
                  !.fecha_pago_completo =
                      IF pagado THEN t ELSE v.fecha_pago_completo]

\* Venta.calcular_totales at time t.
calcular_totales(v, t) ==
    LET total == SumSubtotales(v.productos)
        resto == total - v.abonado
        pagado == resto <= 0
    IN  [v EXCEPT !.total = total,
                  !.resto = resto,
                  !.pagado_completamente = pagado,
                  !.fecha_pago_completo =
                      IF pagado /\ v.fecha_pago_completo = NoFecha
                      THEN t ELSE v.fecha_pago_completo]

\* Venta.get_items_con_stock
get_items_con_stock(v) == SelectSeq(v.productos, LAMBDA it : it.descontar_stock)

\* Venta(...) as nueva_venta_page._guardar_venta constructs it at time t:
\* abonado = 0, the other fields at their defaults, fecha = now().
NuevaVenta(cliente_id, items, es_fiado, t) ==
    [cliente_id |-> cliente_id, productos |-> items, total |-> 0,
     es_fiado |-> es_fiado, abonado |-> 0, resto |-> 0,
     pagado_completamente |-> FALSE, fecha_pago_completo |-> NoFecha,
     fecha |-> t]

\* ------------------------------------------------------- ClienteRepository
\* ClienteRepository.actualizar_deuda
actualizar_deuda(S, cliente_id, monto) ==
    IF cliente_id \in DOMAIN S.clientes
    THEN [S EXCEPT !.clientes[cliente_id].deuda_total = @ + monto]
    ELSE S

PendientesDe(S, cliente_id) ==
    { i \in DOMAIN S.ventas :
        /\ S.ventas[i].cliente_id = cliente_id
        /\ S.ventas[i].es_fiado
        /\ S.ventas[i].pagado_completamente = FALSE }

\* ClienteRepository.calcular_deuda_real
calcular_deuda_real(S, cliente_id) ==
    SumResto(S.ventas, PendientesDe(S, cliente_id))

\* ------------------------------------------------------ ProductoRepository
\* descontar_stock that adds the quantity
descontar_stock_suma(S, producto_id, cantidad) ==
    IF producto_id \in DOMAIN S.productos
    THEN [S EXCEPT !.productos[producto_id] = @ + cantidad]
    ELSE S

\* ProductoRepository.descontar_stock
descontar_stock(S, producto_id, cantidad) ==
    IF producto_id \in DOMAIN S.productos
    THEN [S EXCEPT !.productos[producto_id] = @ - cantidad]
    ELSE S

\* ---------------------------------------------------------- VentaRepository
\* the loop of VentaRepository.crear over get_items_con_stock()
RECURSIVE DescontarItems(_, _)
DescontarItems(S, items) ==
    IF items = <<>> THEN S
    ELSE LET it == Head(items)
             S1 == IF it.producto_id # NoId
                   THEN descontar_stock(S, it.producto_id, it.cantidad)
                   ELSE S
         IN  DescontarItems(S1, Tail(items))

\* VentaRepository.crear: returns the store and the id of the new row.
VentaRepository_crear(S, venta) ==
    LET v  == calcular_totales(venta, S.now)
        S1 == DescontarItems(S, get_items_con_stock(v))
        S2 == IF v.es_fiado /\ v.cliente_id # NoId
              THEN actualizar_deuda(S1, v.cliente_id, v.resto)
              ELSE S1
        id == S.nextVentaId
    IN  [db |-> [S2 EXCEPT !.ventas = Con(S2.ventas, id, v),
                           !.nextVentaId = id + 1,
                           !.now = S.now + 1],
         id |-> id]

\* the commits VentaRepository.crear makes before the one that stores the
\* sale: one per descontar_stock, one for actualizar_deuda
PasosDeCrear(venta) ==
    Len(get_items_con_stock(venta))
    + (IF venta.es_fiado /\ venta.cliente_id # NoId THEN 1 ELSE 0)

\* VentaRepository.crear that raises after its first n commits: what they
\* wrote stays, the sale is not stored.
VentaRepository_crear_interrumpida(S, venta, n) ==
    LET v     == calcular_totales(venta, S.now)
        items == get_items_con_stock(v)
        hechos == IF n <= Len(items) THEN n ELSE Len(items)
        S1    == DescontarItems(S, SubSeq(items, 1, hechos))
    IN  IF n > Len(items) /\ v.es_fiado /\ v.cliente_id # NoId
        THEN actualizar_deuda(S1, v.cliente_id, v.resto)
        ELSE S1

\* the loop of VentaRepository.eliminar that gives the stock back
RECURSIVE RevertirItems(_, _)
RevertirItems(S, items) ==
    IF items = <<>> THEN S
    ELSE LET it == Head(items)
             S1 == IF it.producto_id # NoId /\ it.producto_id \in DOMAIN S.productos
                   THEN [S EXCEPT !.productos[it.producto_id] = @ + it.cantidad]
                   ELSE S
         IN  RevertirItems(S1, Tail(items))

\* VentaRepository.calcular_abonado
calcular_abonado(S, venta_id) ==
    SumMonto(S.abonos, { a \in DOMAIN S.abonos : S.abonos[a].venta_id = venta_id })

\* VentaRepository.eliminar that takes the sale's total, not its resto, off
\* the customer's debt
VentaRepository_eliminar_total(S, venta_id) ==
    IF venta_id \notin DOMAIN S.ventas
    THEN [ok |-> FALSE, err |-> "no_encontrada", db |-> S]
    ELSE
    LET venta == S.ventas[venta_id]
        S1 == RevertirItems(S, get_items_con_stock(venta))
        S2 == IF venta.es_fiado /\ venta.cliente_id # NoId
                 /\ venta.cliente_id \in DOMAIN S1.clientes
              THEN [S1 EXCEPT !.clientes[venta.cliente_id].deuda_total =
                                  @ - venta.total]
              ELSE S1
        referenciada == \E a \in DOMAIN S.abonos : S.abonos[a].venta_id = venta_id
    IN  IF S.fkEnforced /\ referenciada
        THEN [ok |-> FALSE, err |-> "fk", db |-> S]
        ELSE [ok |-> TRUE, err |-> "",
              db |-> [S2 EXCEPT !.ventas = Sin(S2.ventas, venta_id)]]

\* VentaRepository.eliminar.  err = "fk": the commit raised an
\* IntegrityError because payments still reference the sale.
VentaRepository_eliminar(S, venta_id) ==
    IF venta_id \notin DOMAIN S.ventas
    THEN [ok |-> FALSE, err |-> "no_encontrada", db |-> S]
    ELSE
    LET venta == S.ventas[venta_id]
        S1 == RevertirItems(S, get_items_con_stock(venta))
        S2 == IF venta.es_fiado /\ venta.cliente_id # NoId
                 /\ venta.cliente_id \in DOMAIN S1.clientes
              THEN [S1 EXCEPT !.clientes[venta.cliente_id].deuda_total =
                                  @ - venta.resto]
              ELSE S1
        referenciada == \E a \in DOMAIN S.abonos : S.abonos[a].venta_id = venta_id
    IN  IF S.fkEnforced /\ referenciada
        THEN [ok |-> FALSE, err |-> "fk", db |-> S]
        ELSE [ok |-> TRUE, err |-> "",
              db |-> [S2 EXCEPT !.ventas = Sin(S2.ventas, venta_id)]]

\* VentaRepository.actualizar of a sale whose line items were changed
VentaRepository_actualizar(S, venta_id, items) ==
    LET venta == [S.ventas[venta_id] EXCEPT !.productos = items]
        v     == calcular_totales(venta, S.now)
    IN  [S EXCEPT !.ventas[venta_id] = v]

\* the rows of VentaRepository.listar_fiados_cliente in the order of its
\* ORDER BY clause
RECURSIVE OrdenarPorFecha(_, _)
OrdenarPorFecha(vs, ids) ==
    IF ids = {} THEN <<>>
    ELSE LET i == CHOOSE x \in ids : \A y \in ids : vs[x].fecha >= vs[y].fecha
         IN  <<i>> \o OrdenarPorFecha(vs, ids \ {i})

\* VentaRepository.listar_fiados_cliente: ids, ORDER BY fecha DESC
listar_fiados_cliente(S, cliente_id) ==
    OrdenarPorFecha(S.ventas, PendientesDe(S, cliente_id))

\* ---------------------------------------------------------- AbonoRepository
\* AbonoRepository.crear without the check against the pending balance
AbonoRepository_crear_sin_tope(S, venta_id, monto) ==
    IF venta_id \notin DOMAIN S.ventas
    THEN [ok |-> FALSE, err |-> "no_encontrada", pendiente |-> 0, id |-> NoId, db |-> S]
    ELSE
    LET venta == S.ventas[venta_id]
        total_abonado_actual == calcular_abonado(S, venta_id)
        resto_pendiente == venta.total - total_abonado_actual
        id == S.nextAbonoId
        v1 == calcular_totales([venta EXCEPT !.abonado = total_abonado_actual + monto],
                               S.now)
        S1 == [S EXCEPT !.abonos = Con(S.abonos, id, [venta_id |-> venta_id, monto |-> monto]),
                        !.nextAbonoId = id + 1,
                        !.ventas[venta_id] = v1,
                        !.now = S.now + 1]
        S2 == IF venta.cliente_id # NoId
              THEN actualizar_deuda(S1, venta.cliente_id, -monto)
              ELSE S1
    IN  IF ~venta.es_fiado
        THEN [ok |-> FALSE, err |-> "no_fiada", pendiente |-> 0, id |-> NoId, db |-> S]
        ELSE IF monto <= 0
        THEN [ok |-> FALSE, err |-> "monto", pendiente |-> 0, id |-> NoId, db |-> S]
        ELSE IF FALSE
        THEN [ok |-> FALSE, err |-> "excede", pendiente |-> resto_pendiente,
              id |-> NoId, db |-> S]
        ELSE [ok |-> TRUE, err |-> "", pendiente |-> resto_pendiente,
              id |-> id, db |-> S2]

\* AbonoRepository.crear that checks the amount against the sale's total
AbonoRepository_crear_tope_total(S, venta_id, monto) ==
    IF venta_id \notin DOMAIN S.ventas
    THEN [ok |-> FALSE, err |-> "no_encontrada", pendiente |-> 0, id |-> NoId, db |-> S]
    ELSE
    LET venta == S.ventas[venta_id]
        total_abonado_actual == calcular_abonado(S, venta_id)
        resto_pendiente == venta.total - total_abonado_actual
        id == S.nextAbonoId
        v1 == calcular_totales([venta EXCEPT !.abonado = total_abonado_actual + monto],
                               S.now)
        S1 == [S EXCEPT !.abonos = Con(S.abonos, id, [venta_id |-> venta_id, monto |-> monto]),
                        !.nextAbonoId = id + 1,
                        !.ventas[venta_id] = v1,
                        !.now = S.now + 1]
        S2 == IF venta.cliente_id # NoId
              THEN actualizar_deuda(S1, venta.cliente_id, -monto)
              ELSE S1
    IN  IF ~venta.es_fiado
        THEN [ok |-> FALSE, err |-> "no_fiada", pendiente |-> 0, id |-> NoId, db |-> S]
        ELSE IF monto <= 0
        THEN [ok |-> FALSE, err |-> "monto", pendiente |-> 0, id |-> NoId, db |-> S]
        ELSE IF monto > venta.total
        THEN [ok |-> FALSE, err |-> "excede", pendiente |-> resto_pendiente,
              id |-> NoId, db |-> S]
        ELSE [ok |-> TRUE, err |-> "", pendiente |-> resto_pendiente,
              id |-> id, db |-> S2]

\* AbonoRepository.crear without the check that the sale is on credit
AbonoRepository_crear_sin_fiado(S, venta_id, monto) ==
    IF venta_id \notin DOMAIN S.ventas
    THEN [ok |-> FALSE, err |-> "no_encontrada", pendiente |-> 0, id |-> NoId, db |-> S]
    ELSE
    LET venta == S.ventas[venta_id]
        total_abonado_actual == calcular_abonado(S, venta_id)
        resto_pendiente == venta.total - total_abonado_actual
        id == S.nextAbonoId
        v1 == calcular_totales([venta EXCEPT !.abonado = total_abonado_actual + monto],
                               S.now)
        S1 == [S EXCEPT !.abonos = Con(S.abonos, id, [venta_id |-> venta_id, monto |-> monto]),
                        !.nextAbonoId = id + 1,
                        !.ventas[venta_id] = v1,
                        !.now = S.now + 1]
        S2 == IF venta.cliente_id # NoId
              THEN actualizar_deuda(S1, venta.cliente_id, -monto)
              ELSE S1
    IN  IF FALSE
        THEN [ok |-> FALSE, err |-> "no_fiada", pendiente |-> 0, id |-> NoId, db |-> S]
        ELSE IF monto <= 0
        THEN [ok |-> FALSE, err |-> "monto", pendiente |-> 0, id |-> NoId, db |-> S]
        ELSE IF monto > resto_pendiente
        THEN [ok |-> FALSE, err |-> "excede", pendiente |-> resto_pendiente,
              id |-> NoId, db |-> S]
        ELSE [ok |-> TRUE, err |-> "", pendiente |-> resto_pendiente,
              id |-> id, db |-> S2]

\* AbonoRepository.crear.  ok = FALSE is a raised ValueError; pendiente is
\* the resto_pendiente the message of the last one carries.
AbonoRepository_crear(S, venta_id, monto) ==
    IF venta_id \notin DOMAIN S.ventas
    THEN [ok |-> FALSE, err |-> "no_encontrada", pendiente |-> 0, id |-> NoId, db |-> S]
    ELSE
    LET venta == S.ventas[venta_id]
        total_abonado_actual == calcular_abonado(S, venta_id)
        resto_pendiente == venta.total - total_abonado_actual
        id == S.nextAbonoId
        v1 == calcular_totales([venta EXCEPT !.abonado = total_abonado_actual + monto],
                               S.now)
        S1 == [S EXCEPT !.abonos = Con(S.abonos, id, [venta_id |-> venta_id, monto |-> monto]),
                        !.nextAbonoId = id + 1,
                        !.ventas[venta_id] = v1,
                        !.now = S.now + 1]
        S2 == IF venta.cliente_id # NoId
              THEN actualizar_deuda(S1, venta.cliente_id, -monto)
              ELSE S1
    IN  IF ~venta.es_fiado
        THEN [ok |-> FALSE, err |-> "no_fiada", pendiente |-> 0, id |-> NoId, db |-> S]
        ELSE IF monto <= 0
        THEN [ok |-> FALSE, err |-> "monto", pendiente |-> 0, id |-> NoId, db |-> S]
        ELSE IF monto > resto_pendiente
        THEN [ok |-> FALSE, err |-> "excede", pendiente |-> resto_pendiente,
              id |-> NoId, db |-> S]
        ELSE [ok |-> TRUE, err |-> "", pendiente |-> resto_pendiente,
              id |-> id, db |-> S2]

\* AbonoRepository.eliminar that leaves the sale's abonado as it was
AbonoRepository_eliminar_sin_abonado(S, abono_id) ==
    IF abono_id \notin DOMAIN S.abonos
    THEN [ok |-> FALSE, db |-> S]
    ELSE
    LET abono == S.abonos[abono_id]
    IN  IF abono.venta_id \notin DOMAIN S.ventas
        THEN [ok |-> FALSE, db |-> S]
        ELSE
        LET venta == S.ventas[abono.venta_id]
            v1 == calcular_totales([venta EXCEPT !.abonado = @], S.now)
            S1 == [S EXCEPT !.ventas[abono.venta_id] = v1]
            S2 == IF venta.cliente_id # NoId
                  THEN actualizar_deuda(S1, venta.cliente_id, abono.monto)
                  ELSE S1
        IN  [ok |-> TRUE, db |-> [S2 EXCEPT !.abonos = Sin(S2.abonos, abono_id)]]

\* AbonoRepository.eliminar that does not give the amount back to the debt
AbonoRepository_eliminar_sin_deuda(S, abono_id) ==
    IF abono_id \notin DOMAIN S.abonos
    THEN [ok |-> FALSE, db |-> S]
    ELSE
    LET abono == S.abonos[abono_id]
    IN  IF abono.venta_id \notin DOMAIN S.ventas
        THEN [ok |-> FALSE, db |-> S]
        ELSE
        LET venta == S.ventas[abono.venta_id]
            v1 == calcular_totales([venta EXCEPT !.abonado = @ - abono.monto], S.now)
            S1 == [S EXCEPT !.ventas[abono.venta_id] = v1]
            S2 == IF FALSE
                  THEN actualizar_deuda(S1, venta.cliente_id, abono.monto)
                  ELSE S1
        IN  [ok |-> TRUE, db |-> [S2 EXCEPT !.abonos = Sin(S2.abonos, abono_id)]]

\* AbonoRepository.eliminar that removes a payment whose sale is gone
AbonoRepository_eliminar_huerfano(S, abono_id) ==
    IF abono_id \notin DOMAIN S.abonos
    THEN [ok |-> FALSE, db |-> S]
    ELSE
    LET abono == S.abonos[abono_id]
    IN  IF abono.venta_id \notin DOMAIN S.ventas
        THEN [ok |-> TRUE, db |-> [S EXCEPT !.abonos = Sin(S.abonos, abono_id)]]
        ELSE
        LET venta == S.ventas[abono.venta_id]
            v1 == calcular_totales([venta EXCEPT !.abonado = @ - abono.monto], S.now)
            S1 == [S EXCEPT !.ventas[abono.venta_id] = v1]
            S2 == IF venta.cliente_id # NoId
                  THEN actualizar_deuda(S1, venta.cliente_id, abono.monto)
                  ELSE S1
        IN  [ok |-> TRUE, db |-> [S2 EXCEPT !.abonos = Sin(S2.abonos, abono_id)]]

\* AbonoRepository.eliminar
AbonoRepository_eliminar(S, abono_id) ==
    IF abono_id \notin DOMAIN S.abonos
    THEN [ok |-> FALSE, db |-> S]
    ELSE
    LET abono == S.abonos[abono_id]
    IN  IF abono.venta_id \notin DOMAIN S.ventas
        THEN [ok |-> FALSE, db |-> S]
        ELSE
        LET venta == S.ventas[abono.venta_id]
            v1 == calcular_totales([venta EXCEPT !.abonado = @ - abono.monto], S.now)
            S1 == [S EXCEPT !.ventas[abono.venta_id] = v1]
            S2 == IF venta.cliente_id # NoId
                  THEN actualizar_deuda(S1, venta.cliente_id, abono.monto)
                  ELSE S1
        IN  [ok |-> TRUE, db |-> [S2 EXCEPT !.abonos = Sin(S2.abonos, abono_id)]]

\* ------------------------------------------- AbonoRepository.crear in steps
\* A session of get_session_context() that holds nothing
SesionLibre ==
    [pc |-> "libre", venta_id |-> NoId, monto |-> 0,
     total_abonado_actual |-> 0, venta |-> <<>>, deuda_total |-> 0]

\* AbonoRepository.crear up to its balance check: what the session read
\* (the Venta row and the sum of its payments) and whether the checks pass
AbonoRepository_crear_leer(S, venta_id, monto) ==
    IF venta_id \notin DOMAIN S.ventas
    THEN [ok |-> FALSE, sesion |-> SesionLibre]
    ELSE
    LET venta == S.ventas[venta_id]
        total_abonado_actual == calcular_abonado(S, venta_id)
        resto_pendiente == venta.total - total_abonado_actual
    IN  IF ~venta.es_fiado \/ monto <= 0 \/ monto > resto_pendiente
        THEN [ok |-> FALSE, sesion |-> SesionLibre]
        ELSE [ok |-> TRUE,
              sesion |-> [pc |-> "leido", venta_id |-> venta_id, monto |-> monto,
                          total_abonado_actual |-> total_abonado_actual,
                          venta |-> <<venta>>, deuda_total |-> 0]]

\* AbonoRepository.crear from session.add(abono) to its commit, with what
\* the session read before: the Venta object is the one read then, the
\* Cliente is read now by actualizar_deuda.  An UPDATE of a row that is gone
\* raises and nothing is written.
AbonoRepository_crear_escribir(S, sesion) ==
    IF sesion.venta_id \notin DOMAIN S.ventas THEN S
    ELSE
    LET venta == sesion.venta[1]
        id == S.nextAbonoId
        v1 == calcular_totales(
                  [venta EXCEPT !.abonado = sesion.total_abonado_actual + sesion.monto],
                  S.now)
        S1 == [S EXCEPT !.abonos = Con(S.abonos, id,
                                       [venta_id |-> sesion.venta_id,
                                        monto |-> sesion.monto]),
                        !.nextAbonoId = id + 1,
                        !.ventas[sesion.venta_id] = v1,
                        !.now = S.now + 1]
    IN  IF venta.cliente_id # NoId
        THEN actualizar_deuda(S1, venta.cliente_id, -sesion.monto)
        ELSE S1

\* AbonoRepository.crear at the session.get(Cliente, ...) of
\* ClienteRepository.actualizar_deuda: the session now holds the customer's
\* deuda_total as committed at this moment
AbonoRepository_crear_leer_cliente(S, sesion) ==
    [sesion EXCEPT !.pc = "cliente_leido",
                   !.deuda_total = S.clientes[sesion.venta[1].cliente_id].deuda_total]

\* AbonoRepository.crear from cliente.deuda_total += monto to the commit,
\* with what the session read before: the Venta and the Cliente objects are
\* the ones read then, and the UPDATEs write the values computed from them
AbonoRepository_crear_escribir_deuda(S, sesion) ==
    IF sesion.venta_id \notin DOMAIN S.ventas THEN S
    ELSE
    LET venta == sesion.venta[1]
        id == S.nextAbonoId
        v1 == calcular_totales(
                  [venta EXCEPT !.abonado = sesion.total_abonado_actual + sesion.monto],
                  S.now)
    IN  [S EXCEPT !.abonos = Con(S.abonos, id,
                                 [venta_id |-> sesion.venta_id,
                                  monto |-> sesion.monto]),
                  !.nextAbonoId = id + 1,
                  !.ventas[sesion.venta_id] = v1,
                  !.now = S.now + 1,
                  !.clientes[venta.cliente_id].deuda_total =
                      sesion.deuda_total - sesion.monto]

\* ------------------------------------------------------- views (handlers)
\* outcome of a handler: what it was, its inputs, whether it ran to its
\* end, the error it showed, and what it produced
Resultado(op, a, m, ok, err, lista) ==
    [op |-> op, a |-> a, m |-> m, ok |-> ok, err |-> err, lista |-> lista]

\* ClientesPage._cargar_clientes: the list shows, for every active
\* customer, the debt recomputed from the sales (kept in memory only).
cargar_clientes(S) ==
    [c \in { x \in DOMAIN S.clientes : S.clientes[x].activo } |->
        calcular_deuda_real(S, c)]

\* the for loop of procesar_abono (clientes_page.py): ventas_pendientes
\* still to visit, monto_restante, ventas_abonadas so far.  ok = FALSE:
\* registrar_abono raised; what earlier iterations committed stays.
RECURSIVE DistribuirAbono(_, _, _, _)
DistribuirAbono(S, pendientes, monto_restante, ventas_abonadas) ==
    IF pendientes = <<>> \/ monto_restante <= 0
    THEN [ok |-> TRUE, db |-> S, lista |-> ventas_abonadas,
          restante |-> monto_restante]
    ELSE
    LET venta_id == Head(pendientes)
        monto_a_abonar == Min(monto_restante, S.ventas[venta_id].resto)
        r == AbonoRepository_crear(S, venta_id, monto_a_abonar)
    IN  IF monto_a_abonar > 0
        THEN IF r.ok
             THEN DistribuirAbono(r.db, Tail(pendientes),
                                  monto_restante - monto_a_abonar,
                                  Append(ventas_abonadas,
                                         [venta |-> venta_id, monto |-> monto_a_abonar]))
             ELSE [ok |-> FALSE, db |-> S, lista |-> ventas_abonadas,
                   restante |-> monto_restante]
        ELSE DistribuirAbono(S, Tail(pendientes), monto_restante, ventas_abonadas)

\* procesar_abono that visits the first pending sale only
procesar_abono_una_venta(S, deuda_mostrada, cliente_id, monto) ==
    LET ventas_pendientes == listar_fiados_cliente(S, cliente_id)
        r == DistribuirAbono(S, SubSeq(ventas_pendientes, 1, 1), monto, <<>>)
    IN  IF monto <= 0
        THEN [ok |-> FALSE, err |-> "monto", db |-> S, lista |-> <<>>, restante |-> monto]
        ELSE IF monto > deuda_mostrada
        THEN [ok |-> FALSE, err |-> "mayor_que_deuda", db |-> S, lista |-> <<>>,
              restante |-> monto]
        ELSE IF ventas_pendientes = <<>>
        THEN [ok |-> FALSE, err |-> "sin_pendientes", db |-> S, lista |-> <<>>,
              restante |-> monto]
        ELSE [ok |-> r.ok, err |-> IF r.ok THEN "" ELSE "excepcion", db |-> r.db,
              lista |-> r.lista, restante |-> r.restante]

\* procesar_abono (clientes_page.py): deuda_mostrada is cliente.deuda_total
\* of the list entry the dialog was opened on.
procesar_abono(S, deuda_mostrada, cliente_id, monto) ==
    LET ventas_pendientes == listar_fiados_cliente(S, cliente_id)
        r == DistribuirAbono(S, ventas_pendientes, monto, <<>>)
    IN  IF monto <= 0
        THEN [ok |-> FALSE, err |-> "monto", db |-> S, lista |-> <<>>, restante |-> monto]
        ELSE IF monto > deuda_mostrada
        THEN [ok |-> FALSE, err |-> "mayor_que_deuda", db |-> S, lista |-> <<>>,
              restante |-> monto]
        ELSE IF ventas_pendientes = <<>>
        THEN [ok |-> FALSE, err |-> "sin_pendientes", db |-> S, lista |-> <<>>,
              restante |-> monto]
        ELSE [ok |-> r.ok, err |-> IF r.ok THEN "" ELSE "excepcion", db |-> r.db,
              lista |-> r.lista, restante |-> r.restante]

\* the for loop of liquidar (clientes_page.py)
RECURSIVE LiquidarVentas(_, _, _)
LiquidarVentas(S, pendientes, ventas_abonadas) ==
    IF pendientes = <<>>
    THEN [ok |-> TRUE, db |-> S, lista |-> ventas_abonadas]
    ELSE
    LET venta_id == Head(pendientes)
        monto_pendiente == S.ventas[venta_id].resto
        r == AbonoRepository_crear(S, venta_id, monto_pendiente)
    IN  IF monto_pendiente > 0
        THEN IF r.ok
             THEN LiquidarVentas(r.db, Tail(pendientes),
                                 Append(ventas_abonadas,
                                        [venta |-> venta_id, monto |-> monto_pendiente]))
             ELSE [ok |-> FALSE, db |-> S, lista |-> ventas_abonadas]
        ELSE LiquidarVentas(S, Tail(pendientes), ventas_abonadas)

\* liquidar that settles the first pending sale only
liquidar_una_venta(S, cliente_id) ==
    LET ventas_pendientes == listar_fiados_cliente(S, cliente_id)
        r == LiquidarVentas(S, SubSeq(ventas_pendientes, 1, 1), <<>>)
    IN  IF ventas_pendientes = <<>>
        THEN [ok |-> FALSE, err |-> "sin_pendientes", db |-> S, lista |-> <<>>]
        ELSE [ok |-> r.ok, err |-> IF r.ok THEN "" ELSE "excepcion", db |-> r.db,
              lista |-> r.lista]

\* liquidar (clientes_page.py)
liquidar(S, cliente_id) ==
    LET ventas_pendientes == listar_fiados_cliente(S, cliente_id)
        r == LiquidarVentas(S, ventas_pendientes, <<>>)
    IN  IF ventas_pendientes = <<>>
        THEN [ok |-> FALSE, err |-> "sin_pendientes", db |-> S, lista |-> <<>>]
        ELSE [ok |-> r.ok, err |-> IF r.ok THEN "" ELSE "excepcion", db |-> r.db,
              lista |-> r.lista]

\* _guardar_venta without the check that a credit sale has a customer
guardar_venta_sin_cliente(S, cliente_id, items, es_fiado, abono) ==
    LET c == VentaRepository_crear(S, NuevaVenta(cliente_id, items, es_fiado, S.now))
        r == AbonoRepository_crear(c.db, c.id, abono)
    IN  IF abono < 0
        THEN [ok |-> FALSE, err |-> "abono_negativo", db |-> S, id |-> NoId]
        ELSE IF es_fiado /\ abono > 0
        THEN IF r.ok
             THEN [ok |-> TRUE, err |-> "", db |-> r.db, id |-> c.id]
             ELSE [ok |-> FALSE, err |-> r.err, db |-> c.db, id |-> c.id]
        ELSE [ok |-> TRUE, err |-> "", db |-> c.db, id |-> c.id]

\* NuevaVentaPage._guardar_venta
guardar_venta(S, cliente_id, items, es_fiado, abono) ==
    LET c == VentaRepository_crear(S, NuevaVenta(cliente_id, items, es_fiado, S.now))
        r == AbonoRepository_crear(c.db, c.id, abono)
    IN  IF es_fiado /\ cliente_id = NoId
        THEN [ok |-> FALSE, err |-> "sin_cliente", db |-> S, id |-> NoId]
        ELSE IF abono < 0
        THEN [ok |-> FALSE, err |-> "abono_negativo", db |-> S, id |-> NoId]
        ELSE IF es_fiado /\ abono > 0
        THEN IF r.ok
             THEN [ok |-> TRUE, err |-> "", db |-> r.db, id |-> c.id]
             ELSE [ok |-> FALSE, err |-> r.err, db |-> c.db, id |-> c.id]
        ELSE [ok |-> TRUE, err |-> "", db |-> c.db, id |-> c.id]

\* ----------------------------------------------------------------- actions
Init ==
    /\ clientes = [c \in Clientes |-> [deuda_total |-> 0, activo |-> TRUE]]
    /\ productos = StockInicial
    /\ ventas = << >>
    /\ abonos = << >>
    /\ nextVentaId = 1
    /\ nextAbonoId = 1
    /\ now = 1
    /\ fkEnforced \in BOOLEAN
    /\ todos_clientes = [c \in Clientes |-> 0]
    /\ res = Resultado("inicio", NoId, 0, TRUE, "", <<>>)
    /\ sesiones = [k \in Cajeros |-> SesionLibre]
    /\ fallos = 0
    /\ tabla_sesiones = << >>

\* the store after a commit
Escribir(S) ==
    /\ clientes' = S.clientes
    /\ productos' = S.productos
    /\ ventas' = S.ventas
    /\ abonos' = S.abonos
    /\ nextVentaId' = S.nextVentaId
    /\ nextAbonoId' = S.nextAbonoId
    /\ now' = S.now
    /\ fkEnforced' = S.fkEnforced

\* the store after a handler that ran from its first line to its last with
\* no other session in between
Guardar(S) ==
    /\ Escribir(S)
    /\ UNCHANGED <<sesiones, fallos, tabla_sesiones>>

EnLimites(S) ==
    /\ S.nextVentaId <= MaxVentas + 1
    /\ S.nextAbonoId <= MaxAbonos + 1

\* what the clerk picks in nueva_venta_page: customer and "es fiado"
Selecciones ==
    { <<1, FALSE>>, <<1, TRUE>>, <<2, TRUE>>, <<NoId, TRUE>> }

\* A handler either gets to the store or is turned down before it writes
\* anything.  The first six actions below are the handlers that got to the
\* store; the ones named ...Rechazad[oa] are the same handlers turned down:
\* they leave the store as it is and only show their error.

\* _guardar_venta that persisted a sale (its initial payment may still have
\* been turned down afterwards: ok = FALSE, the sale stays)
GuardarVenta ==
    \E k \in Selecciones, items \in Carritos, abono \in Montos :
        LET r == guardar_venta(DB, k[1], items, k[2], abono)
        IN  /\ r.id # NoId
            /\ EnLimites(r.db)
            /\ Guardar(r.db)
            /\ res' = Resultado("guardar_venta", r.id, abono, r.ok, r.err, <<>>)
            /\ UNCHANGED todos_clientes

GuardarVentaRechazada ==
    \E k \in Selecciones, items \in Carritos, abono \in Montos :
        LET r == guardar_venta(DB, k[1], items, k[2], abono)
        IN  /\ r.id = NoId
            /\ res' = Resultado("guardar_venta", NoId, 0, FALSE, r.err, <<>>)
            /\ UNCHANGED <<clientes, productos, ventas, abonos, nextVentaId,
                           nextAbonoId, now, fkEnforced, todos_clientes,
                           sesiones, fallos, tabla_sesiones>>

\* _guardar_venta whose VentaRepository.crear raised partway (the store
\* failed at a later commit): the except branch shows the error.
GuardarVentaInterrumpida ==
    \E k \in Selecciones, items \in Carritos :
        LET venta == NuevaVenta(k[1], items, k[2], now)
        IN  \E n \in 1..PasosDeCrear(venta) :
                LET S == VentaRepository_crear_interrumpida(DB, venta, n)
                IN  /\ ~(k[2] /\ k[1] = NoId)
                    /\ fallos < MaxFallos
                    /\ Escribir(S)
                    /\ fallos' = fallos + 1
                    /\ res' = Resultado("guardar_venta", NoId, 0, FALSE, "excepcion", <<>>)
                    /\ UNCHANGED <<todos_clientes, sesiones, tabla_sesiones>>

\* guardar_abono (clientes_page, ventas_page): AbonoRepository.crear
RegistrarAbono ==
    \E v \in VentaIds, m \in Montos :
        LET r == AbonoRepository_crear(DB, v, m)
        IN  /\ r.ok
            /\ EnLimites(r.db)
            /\ Guardar(r.db)
            /\ res' = Resultado("abono_crear", v, m, TRUE, "", <<>>)
            /\ UNCHANGED todos_clientes

RegistrarAbonoRechazado ==
    \E v \in VentaIds, m \in Montos :
        LET r == AbonoRepository_crear(DB, v, m)
        IN  /\ ~r.ok
            /\ res' = Resultado("abono_crear", NoId, 0, FALSE, r.err, <<>>)
            /\ Guardar(r.db)
            /\ UNCHANGED todos_clientes

\* guardar_abono of clerk k, first half: a session is opened and
\* AbonoRepository.crear reads the sale and its payments and checks the amount
AbonoLeer ==
    \E k \in Cajeros, v \in VentaIds, m \in 1..MaxMonto :
        LET r == AbonoRepository_crear_leer(DB, v, m)
        IN  /\ sesiones[k].pc = "libre"
            /\ r.ok
            /\ nextAbonoId + Cardinality({ j \in Cajeros : sesiones[j].pc # "libre" })
                  <= MaxAbonos
            /\ sesiones' = [sesiones EXCEPT ![k] = r.sesion]
            /\ UNCHANGED <<clientes, productos, ventas, abonos, nextVentaId,
                           nextAbonoId, now, fkEnforced, todos_clientes, res,
                           fallos, tabla_sesiones>>

\* guardar_abono of clerk k, second half: AbonoRepository.crear writes the
\* payment, the sale and the debt and commits; the session is closed
AbonoEscribir ==
    \E k \in Cajeros :
        /\ sesiones[k].pc = "leido"
        /\ Escribir(AbonoRepository_crear_escribir(DB, sesiones[k]))
        /\ sesiones' = [sesiones EXCEPT ![k] = SesionLibre]
        /\ res' = Resultado("abono_crear", sesiones[k].venta_id, sesiones[k].monto,
                            TRUE, "", <<>>)
        /\ UNCHANGED <<todos_clientes, fallos, tabla_sesiones>>

\* confirmar_eliminar (clientes_page): AbonoRepository.eliminar
EliminarAbono ==
    \E a \in AbonoIds :
        LET r == AbonoRepository_eliminar(DB, a)
        IN  /\ r.ok
            /\ Guardar(r.db)
            /\ res' = Resultado("abono_eliminar", a, 0, TRUE, "", <<>>)
            /\ UNCHANGED todos_clientes

EliminarAbonoRechazado ==
    \E a \in AbonoIds :
        LET r == AbonoRepository_eliminar(DB, a)
        IN  /\ ~r.ok
            /\ Guardar(r.db)
            /\ res' = Resultado("abono_eliminar", NoId, 0, FALSE, "", <<>>)
            /\ UNCHANGED todos_clientes

\* eliminar (clientes_page._confirmar_eliminar_venta)
EliminarVenta ==
    \E v \in VentaIds :
        LET r == VentaRepository_eliminar(DB, v)
        IN  /\ r.ok
            /\ Guardar(r.db)
            /\ res' = Resultado("venta_eliminar", v, 0, TRUE, "", <<>>)
            /\ todos_clientes' = cargar_clientes(r.db)

EliminarVentaRechazada ==
    \E v \in VentaIds :
        LET r == VentaRepository_eliminar(DB, v)
        IN  /\ ~r.ok
            /\ Guardar(r.db)
            /\ res' = Resultado("venta_eliminar", NoId, 0, FALSE, r.err, <<>>)
            /\ UNCHANGED todos_clientes

\* procesar_abono that got to its loop
ProcesarAbono ==
    \E c \in DOMAIN todos_clientes, m \in Montos :
        LET r == procesar_abono(DB, todos_clientes[c], c, m)
        IN  /\ r.err \in {"", "excepcion"}
            /\ EnLimites(r.db)
            /\ Guardar(r.db)
            /\ res' = Resultado("procesar_abono", c, m, r.ok, r.err, r.lista)
            /\ todos_clientes' = IF r.ok THEN cargar_clientes(r.db) ELSE todos_clientes

ProcesarAbonoRechazado ==
    \E c \in DOMAIN todos_clientes, m \in Montos :
        LET r == procesar_abono(DB, todos_clientes[c], c, m)
        IN  /\ r.err \notin {"", "excepcion"}
            /\ Guardar(r.db)
            /\ res' = Resultado("procesar_abono", NoId, 0, FALSE, r.err, <<>>)
            /\ UNCHANGED todos_clientes

\* liquidar that got to its loop
Liquidar ==
    \E c \in DOMAIN todos_clientes :
        LET r == liquidar(DB, c)
        IN  /\ r.err \in {"", "excepcion"}
            /\ EnLimites(r.db)
            /\ Guardar(r.db)
            /\ res' = Resultado("liquidar", c, 0, r.ok, r.err, r.lista)
            /\ todos_clientes' = IF r.ok THEN cargar_clientes(r.db) ELSE todos_clientes

LiquidarRechazado ==
    \E c \in DOMAIN todos_clientes :
        LET r == liquidar(DB, c)
        IN  /\ r.err \notin {"", "excepcion"}
            /\ Guardar(r.db)
            /\ res' = Resultado("liquidar", NoId, 0, FALSE, r.err, <<>>)
            /\ UNCHANGED todos_clientes

\* _cargar_clientes (the refresh button, or the page being opened)
CargarClientes ==
    /\ todos_clientes' = cargar_clientes(DB)
    /\ res' = Resultado("cargar_clientes", NoId, 0, TRUE, "", <<>>)
    /\ UNCHANGED <<clientes, productos, ventas, abonos, nextVentaId, nextAbonoId,
                   now, fkEnforced, sesiones, fallos, tabla_sesiones>>

\* VentaRepository.actualizar after the line items were edited
ActualizarVenta ==
    \E v \in DOMAIN ventas, items \in CarritosEdicion :
        /\ Guardar(VentaRepository_actualizar(DB, v, items))
        /\ res' = Resultado("venta_actualizar", v, 0, TRUE, "", <<>>)
        /\ UNCHANGED todos_clientes

\* the handlers that get to the store
Next ==
    \/ GuardarVenta
    \/ RegistrarAbono
    \/ EliminarAbono
    \/ EliminarVenta
    \/ ProcesarAbono
    \/ Liquidar
    \/ CargarClientes

Spec == Init /\ [][Next]_vars

\* Spec with the payments AbonoRepository.crear turned down shown as well
NextAbonos == Next \/ RegistrarAbonoRechazado

SpecAbonos == Init /\ [][NextAbonos]_vars

\* the handlers that store and delete sales, with the sales _guardar_venta
\* turned down before VentaRepository.crear shown as well
NextVentas ==
    \/ GuardarVenta
    \/ GuardarVentaRechazada
    \/ EliminarVenta

SpecVentas == Init /\ [][NextVentas]_vars

\* the handlers that store and delete sales, VentaRepository.crear being
\* liable to fail between two of its commits
NextFallos ==
    \/ GuardarVenta
    \/ GuardarVentaInterrumpida
    \/ EliminarVenta

SpecFallos == Init /\ [][NextFallos]_vars

\* sales being stored while two clerks record payments, each in a session
\* of its own, AbonoRepository.crear of one running between the read and
\* the write of the other
NextConcurrente ==
    \/ GuardarVenta
    \/ AbonoLeer
    \/ AbonoEscribir

SpecConcurrente == Init /\ [][NextConcurrente]_vars

\* the repository operations on one sale and its payments, the sale's line
\* items being edited and saved through VentaRepository.actualizar as well
NextEdit ==
    \/ GuardarVenta
    \/ RegistrarAbono
    \/ EliminarAbono
    \/ ActualizarVenta

SpecEdit == Init /\ [][NextEdit]_vars

\* ------------------------------------------------------------- properties
\* the payments recorded against sale i
AbonosDe(i) == { a \in DOMAIN abonos : abonos[a].venta_id = i }

\* the credit sales of customer c that are not fully paid
FiadasPendientes(c) ==
    { i \in DOMAIN ventas :
        ventas[i].cliente_id = c /\ ventas[i].es_fiado
        /\ ~ventas[i].pagado_completamente }

RECURSIVE SumaMontos(_)
SumaMontos(lista) ==
    IF lista = <<>> THEN 0 ELSE Head(lista).monto + SumaMontos(Tail(lista))

\* C1: after any sequence of completed create_sale, record_payment,
\* delete_payment, delete_sale, FIFO allocation and settle-all, every
\* customer's cached deuda_total equals the sum of resto over that
\* customer's credit sales that are not fully paid.
C1_DeudaEsSumaDeRestos ==
    \A c \in Clientes :
        clientes[c].deuda_total = SumResto(ventas, FiadasPendientes(c))

\* a sale was deleted and its customer still owes on a partly paid sale
C1_Witness ==
    /\ res.op = "venta_eliminar"
    /\ res.ok
    /\ \E i \in DOMAIN ventas :
          /\ ventas[i].es_fiado
          /\ 0 < ventas[i].abonado
          /\ ventas[i].abonado < ventas[i].total
          /\ clientes[ventas[i].cliente_id].deuda_total > 0

\* C2: after create sale, record payment, delete payment or update sale,
\* every sale satisfies abonado + resto = total.
C2_Conservacion ==
    \A i \in DOMAIN ventas : ventas[i].abonado + ventas[i].resto = ventas[i].total

\* a sale with payments had its line items edited to a smaller total
C2_Witness ==
    /\ res.op = "venta_actualizar"
    /\ res.a \in DOMAIN ventas
    /\ ventas[res.a].abonado > 0
    /\ ventas[res.a].total = 1

\* C3: after any sequence of completed create_sale, record_payment,
\* delete_payment and delete_sale, the amounts of the payments recorded
\* against a sale add up to the sale's cached abonado.
C3_LibroIgualAbonado ==
    \A i \in DOMAIN ventas : SumMonto(abonos, AbonosDe(i)) = ventas[i].abonado

\* a payment was deleted from a sale that keeps another payment
C3_Witness ==
    /\ res.op = "abono_eliminar"
    /\ res.ok
    /\ \E i \in DOMAIN ventas : AbonosDe(i) # {} /\ ventas[i].abonado > 0

C5_ExcesoRechazado ==
    \A i \in DOMAIN ventas, m \in 1..MaxMonto :
        LET pendiente == ventas[i].total - SumMonto(abonos, AbonosDe(i))
            r == AbonoRepository_crear(DB, i, m)
        IN  (ventas[i].es_fiado /\ m > pendiente) =>
                /\ ~r.ok
                /\ r.err = "excede"
                /\ r.pendiente = pendiente
                /\ r.db = DB

\* a payment above the pending balance of a partly paid sale was turned down
C5_Witness ==
    /\ res.op = "abono_crear"
    /\ res.err = "excede"
    /\ \E i \in DOMAIN ventas :
          /\ ventas[i].es_fiado
          /\ 0 < ventas[i].abonado
          /\ ventas[i].abonado < ventas[i].total

\* C6: record_payment fails, before anything is written, when the sale does
\* not exist, when the sale is not on credit, and when the amount is zero
\* or negative.
C6_RechazosSinEscritura ==
    \A i \in VentaIds, m \in Montos :
        LET r == AbonoRepository_crear(DB, i, m)
        IN  /\ i \notin DOMAIN ventas =>
                  ~r.ok /\ r.err = "no_encontrada" /\ r.db = DB
            /\ (i \in DOMAIN ventas /\ ~ventas[i].es_fiado) =>
                  ~r.ok /\ r.err = "no_fiada" /\ r.db = DB
            /\ (i \in DOMAIN ventas /\ ventas[i].es_fiado /\ m <= 0) =>
                  ~r.ok /\ r.err = "monto" /\ r.db = DB

\* a payment on a cash sale was turned down
C6_Witness ==
    /\ res.op = "abono_crear"
    /\ res.err = "no_fiada"
    /\ \E i \in DOMAIN ventas : ~ventas[i].es_fiado

\* C7: recording a valid payment on a sale and then deleting that payment
\* brings the sale's abonado and resto, and the customer's deuda_total, back
\* to what they were before the payment.
C7_IdaYVuelta ==
    \A i \in DOMAIN ventas, m \in 1..MaxMonto :
        LET r == AbonoRepository_crear(DB, i, m)
            d == AbonoRepository_eliminar(r.db, r.id)
        IN  r.ok =>
                /\ d.ok
                /\ d.db.ventas[i].abonado = ventas[i].abonado
                /\ d.db.ventas[i].resto = ventas[i].resto
                /\ d.db.clientes = clientes

\* the payment recorded last was deleted again, on a sale that keeps an
\* earlier payment
C7_Witness ==
    /\ res.op = "abono_eliminar"
    /\ res.a = nextAbonoId - 1
    /\ DOMAIN abonos # {}

\* C8: the FIFO allocation visits the customer's pending credit sales from
\* the oldest to the newest: what it lists is in ascending order of fecha,
\* and every credit sale of the customer older than a sale it paid into is
\* fully paid when it ends.
C8_MasAntiguasPrimero ==
    (res.op = "procesar_abono" /\ res.ok) =>
        /\ \A k \in 1..(Len(res.lista) - 1) :
              ventas[res.lista[k].venta].fecha < ventas[res.lista[k + 1].venta].fecha
        /\ \A k \in 1..Len(res.lista) :
              \A w \in DOMAIN ventas :
                  (/\ ventas[w].cliente_id = res.a
                   /\ ventas[w].es_fiado
                   /\ ventas[w].fecha < ventas[res.lista[k].venta].fecha)
                  => ventas[w].pagado_completamente

\* C9: in the FIFO walk every visited sale gets the smaller of the amount
\* still to place and the sale's resto; the walk ends when nothing is left
\* to place or the sales are used up; what it places adds up to the smaller
\* of the amount and the customer's pending restos; an amount above them is
\* left unplaced without an error.
C9_Reparto ==
    \A c \in Clientes, m \in 1..MaxMonto :
        LET pend == listar_fiados_cliente(DB, c)
            r == DistribuirAbono(DB, pend, m, <<>>)
            n == Len(r.lista)
            deuda == SumResto(ventas, FiadasPendientes(c))
            antes(k) == m - SumaMontos(SubSeq(r.lista, 1, k - 1))
        IN  /\ r.ok
            /\ n <= Len(pend)
            /\ \A k \in 1..n :
                  /\ r.lista[k].venta = pend[k]
                  /\ r.lista[k].monto =
                        IF antes(k) <= ventas[pend[k]].resto
                        THEN antes(k) ELSE ventas[pend[k]].resto
                  /\ r.db.ventas[pend[k]].resto =
                        ventas[pend[k]].resto - r.lista[k].monto
            /\ \A k \in (n + 1)..Len(pend) : r.db.ventas[pend[k]] = ventas[pend[k]]
            /\ n = Len(pend) \/ SumaMontos(r.lista) = m
            /\ SumaMontos(r.lista) = IF m <= deuda THEN m ELSE deuda
            /\ r.restante = m - SumaMontos(r.lista)

\* the allocation was given more than the customer owed and left the
\* excess unplaced
C9_Witness ==
    /\ res.op = "procesar_abono"
    /\ res.ok
    /\ res.lista # <<>>
    /\ SumaMontos(res.lista) < res.m

\* C10: a FIFO allocation of an amount X that is at most the customer's
\* debt lowers the cached deuda_total by exactly X, and calcular_deuda_real
\* then returns that cached value.
C10_DeudaBajaX ==
    \A c \in Clientes, X \in 1..MaxMonto :
        LET r == procesar_abono(DB, todos_clientes[c], c, X)
        IN  (X <= clientes[c].deuda_total /\ X <= todos_clientes[c]) =>
                /\ r.ok
                /\ r.db.clientes[c].deuda_total = clientes[c].deuda_total - X
                /\ calcular_deuda_real(r.db, c) = r.db.clientes[c].deuda_total

\* an allocation went over two sales and left part of the debt
C10_Witness ==
    /\ res.op = "procesar_abono"
    /\ res.ok
    /\ Len(res.lista) = 2
    /\ SumaMontos(res.lista) = res.m
    /\ clientes[res.a].deuda_total > 0

\* C11: settling all of a customer's debt is the same as a FIFO allocation
\* of the customer's cached deuda_total: from every reachable state both
\* leave the same payments, the same resto on every sale and the same
\* cached debt, and afterwards every credit sale of the customer is fully
\* paid; with nothing owed neither of them writes anything.
C11_LiquidarEsAbonoTotal ==
    \A c \in Clientes :
        LET l == liquidar(DB, c)
            p == procesar_abono(DB, cargar_clientes(DB)[c], c, clientes[c].deuda_total)
        IN  IF clientes[c].deuda_total > 0
            THEN /\ l.ok /\ p.ok
                 /\ l.db.abonos = p.db.abonos
                 /\ l.db.ventas = p.db.ventas
                 /\ l.db.clientes = p.db.clientes
                 /\ l.lista = p.lista
                 /\ l.db.clientes[c].deuda_total = 0
                 /\ \A i \in DOMAIN l.db.ventas :
                       (l.db.ventas[i].cliente_id = c /\ l.db.ventas[i].es_fiado)
                       => (l.db.ventas[i].pagado_completamente /\ l.db.ventas[i].resto = 0)
            ELSE ~l.ok /\ ~p.ok /\ l.db = DB /\ p.db = DB

\* the debt of a customer with two pending sales was settled
C11_Witness ==
    /\ res.op = "liquidar"
    /\ res.ok
    /\ Len(res.lista) = 2
    /\ clientes[res.a].deuda_total = 0

\* the store after record_payment of m on sale i, or S if it is turned down
TrasAbono(S, i, m) ==
    LET a == AbonoRepository_crear(S, i, m) IN IF a.ok THEN a.db ELSE S

C13_SinAbonosHuerfanos ==
    /\ \A a \in DOMAIN abonos : abonos[a].venta_id \in DOMAIN ventas
    /\ \A i \in DOMAIN ventas :
          LET d == VentaRepository_eliminar(DB, i)
          IN  d.ok => \A a \in DOMAIN d.db.abonos : d.db.abonos[a].venta_id # i

\* the quantity of product p in the line items flagged to affect stock
RECURSIVE CantidadConStock(_, _)
CantidadConStock(items, p) ==
    IF items = <<>> THEN 0
    ELSE (IF Head(items).descontar_stock /\ Head(items).producto_id = p
          THEN Head(items).cantidad ELSE 0)
         + CantidadConStock(Tail(items), p)

RECURSIVE CantidadEnVentas(_, _, _)
CantidadEnVentas(vs, ids, p) ==
    IF ids = {} THEN 0
    ELSE LET i == CHOOSE x \in ids : TRUE
         IN  CantidadConStock(vs[i].productos, p) + CantidadEnVentas(vs, ids \ {i}, p)

\* carts nueva_venta_page can build, for the sale that is created and deleted
CarritosInventario ==
    { <<ItemBD(1, 1)>>, <<ItemBD(1, 2), ItemManual(1, 1)>>,
      <<ItemBD(1, 1), ItemManual(2, 1), ItemBD(1, 1)>>, <<ItemManual(2, 1)>> }

\* C14: create_sale takes the quantity of every stock-affecting line item
\* off its product's stock and delete_sale puts it back, so create_sale
\* followed by delete_sale of that sale restores every product's stock;
\* line items not flagged to affect stock never change any stock.  In every
\* reachable state the stock is what it was at the start minus what the
\* persisted sales took.
C14_InventarioRevertido ==
    /\ \A p \in Productos :
          productos[p] = StockInicial[p] - CantidadEnVentas(ventas, DOMAIN ventas, p)
    /\ \A k \in Selecciones, items \in Carritos \cup CarritosInventario :
          LET cr == VentaRepository_crear(DB, NuevaVenta(k[1], items, k[2], now))
              d  == VentaRepository_eliminar(cr.db, cr.id)
          IN  /\ \A p \in Productos :
                    cr.db.productos[p] = productos[p] - CantidadConStock(items, p)
              /\ d.ok
              /\ d.db.productos = productos

\* a sale was deleted while a sale that took one unit of product 1 is kept
C14_Witness ==
    /\ res.op = "venta_eliminar"
    /\ res.ok
    /\ productos[1] = StockInicial[1] - 1
    /\ \E i \in DOMAIN ventas : CantidadConStock(ventas[i].productos, 1) = 1

\* C15: after a credit sale's line items were changed and the sale was
\* saved through VentaRepository.actualizar, the customer's cached debt
\* still equals the sum of resto over that customer's pending credit sales.
C15_DeudaTrasEditar ==
    res.op = "venta_actualizar" =>
        \A c \in Clientes :
            clientes[c].deuda_total = SumResto(ventas, FiadasPendientes(c))

\* C16: creating a credit sale without a customer fails with the
\* missing-customer error and persists nothing: no sale is stored, no stock
\* changes, nothing else in the store changes.
C16_FiadoSinCliente ==
    \A items \in Carritos \cup CarritosInventario, abono \in Montos :
        LET r == guardar_venta(DB, NoId, items, TRUE, abono)
        IN  /\ ~r.ok
            /\ r.err = "sin_cliente"
            /\ r.id = NoId
            /\ r.db = DB

\* a credit sale without a customer was turned down after other sales had
\* been stored
C16_Witness ==
    /\ res.op = "guardar_venta"
    /\ res.err = "sin_cliente"
    /\ DOMAIN ventas # {}

\* C17: create_sale is all-or-nothing: in no committed state, the one left
\* behind when a step of create_sale fails partway included, is a product's
\* stock lower, or a customer's cached debt higher, than the persisted sales
\* account for.
C17_CrearTodoONada ==
    /\ \A p \in Productos :
          productos[p] >= StockInicial[p] - CantidadEnVentas(ventas, DOMAIN ventas, p)
    /\ \A c \in Clientes :
          clientes[c].deuda_total <= SumResto(ventas, FiadasPendientes(c))

\* C18: create_sale with an initial payment is all-or-nothing: when the
\* initial payment is rejected, or the sale is turned down for any other
\* reason, no sale is persisted, no stock changes and no customer's cached
\* debt changes.
C18_VentaConAbonoTodoONada ==
    \A k \in Selecciones, items \in Carritos, abono \in Montos :
        LET r == guardar_venta(DB, k[1], items, k[2], abono)
        IN  ~r.ok =>
                /\ r.db.ventas = ventas
                /\ r.db.productos = productos
                /\ r.db.clientes = clientes

\* C19: when two clerks record payments on the same credit sale at the
\* same time, each in its own session, they cannot both pass the balance
\* check on stale data: in every interleaving the payments of a sale add up
\* to at most its total and the sale's cached abonado equals that sum.
C19_AbonosConcurrentes ==
    \A i \in DOMAIN ventas :
        /\ SumMonto(abonos, AbonosDe(i)) <= ventas[i].total
        /\ ventas[i].abonado = SumMonto(abonos, AbonosDe(i))

\* what customer c owes by the payment ledger: over the customer's pending
\* credit sales, the total minus the payments recorded against the sale
RECURSIVE DeudaPorLibro(_)
DeudaPorLibro(ids) ==
    IF ids = {} THEN 0
    ELSE LET i == CHOOSE x \in ids : TRUE
         IN  (ventas[i].total - SumMonto(abonos, AbonosDe(i)))
             + DeudaPorLibro(ids \ {i})

\* C20: calcular_deuda_real of a customer is the sum, over the customer's
\* pending credit sales, of the balance recomputed from the payment ledger
\* (total minus the sale's payment records), whatever the cached abonado
\* and resto say: where they differ from the ledger it follows the ledger.
C20_DeudaRealDesdeLibro ==
    \A c \in Clientes :
        calcular_deuda_real(DB, c) = DeudaPorLibro(FiadasPendientes(c))

\* ---------------------------------------------------- debt reconciliation
\* the tolerance of sincronizar_todas_las_deudas, 0.01, in hundredths
ToleranciaCentesimas == 1

Abs(x) == IF x < 0 THEN -x ELSE x

\* ids in ascending order: the customers init_db creates are named so that
\* ORDER BY nombre lists them in the order of their ids
RECURSIVE OrdenarPorNombre(_)
OrdenarPorNombre(ids) ==
    IF ids = {} THEN <<>>
    ELSE LET i == CHOOSE x \in ids : \A y \in ids : x <= y
         IN  <<i>> \o OrdenarPorNombre(ids \ {i})

\* listar_activos that lists every customer
listar_activos_todos(S) ==
    OrdenarPorNombre(DOMAIN S.clientes)

\* ClienteRepository.listar_activos
listar_activos(S) ==
    OrdenarPorNombre({ c \in DOMAIN S.clientes : S.clientes[c].activo })

\* sincronizar_deuda that adds the real debt to the stored one
sincronizar_deuda_suma(S, cliente_id) ==
    LET deuda_real == calcular_deuda_real(S, cliente_id)
    IN  [deuda_real |-> deuda_real,
         db |-> actualizar_deuda(S, cliente_id, deuda_real)]

\* ClienteRepository.sincronizar_deuda
sincronizar_deuda(S, cliente_id) ==
    LET deuda_real == calcular_deuda_real(S, cliente_id)
    IN  [deuda_real |-> deuda_real,
         db |-> IF cliente_id \in DOMAIN S.clientes
                THEN [S EXCEPT !.clientes[cliente_id].deuda_total = deuda_real]
                ELSE S]

\* the for loop of sincronizar_todas_las_deudas: S is what the session holds
\* (nothing of it committed yet), lista the customers still to visit
RECURSIVE SincronizarClientes(_, _, _)
SincronizarClientes(S, lista, stats) ==
    IF lista = <<>> THEN [db |-> S, stats |-> stats]
    ELSE LET c          == Head(lista)
             deuda_bd   == S.clientes[c].deuda_total
             deuda_real == calcular_deuda_real(S, c)
         IN  IF Abs(deuda_bd - deuda_real) * 100 > ToleranciaCentesimas
             THEN SincronizarClientes(
                      [S EXCEPT !.clientes[c].deuda_total = deuda_real],
                      Tail(lista),
                      [stats EXCEPT
                          !.clientes_corregidos = @ + 1,
                          !.diferencias = Append(@,
                              [cliente_id |-> c, deuda_bd |-> deuda_bd,
                               deuda_real |-> deuda_real,
                               diferencia |-> deuda_real - deuda_bd])])
             ELSE SincronizarClientes(S, Tail(lista), stats)

StatsIniciales(lista) ==
    [total_clientes |-> Len(lista), clientes_corregidos |-> 0,
     diferencias |-> <<>>]

\* sincronizar_todas_las_deudas that reports but does not store
sincronizar_todas_sin_escribir(S) ==
    [db |-> S,
     stats |-> SincronizarClientes(S, listar_activos(S),
                                   StatsIniciales(listar_activos(S))).stats]

\* ClienteRepository.sincronizar_todas_las_deudas: the loop, then the one
\* session.commit() after it
sincronizar_todas_las_deudas(S) ==
    SincronizarClientes(S, listar_activos(S), StatsIniciales(listar_activos(S)))

\* sincronizar_todas_las_deudas that raised after n customers were visited:
\* the commit after the loop was not reached, the store is as it was; stats
\* is what the loop had gathered
sincronizar_todas_las_deudas_interrumpida(S, n) ==
    LET lista == listar_activos(S)
    IN  [db |-> S,
         stats |-> SincronizarClientes(S, SubSeq(lista, 1, n),
                                       StatsIniciales(lista)).stats]

\* ClienteRepository.sincronizar_deuda for one customer
SincronizarDeuda ==
    \E c \in Clientes :
        LET r == sincronizar_deuda(DB, c)
        IN  /\ Guardar(r.db)
            /\ res' = Resultado("sincronizar_deuda", c, r.deuda_real, TRUE, "", <<>>)
            /\ UNCHANGED todos_clientes

\* confirmar_sincronizacion (clientes_page) and sincronizar_deudas.py
SincronizarTodas ==
    LET r == sincronizar_todas_las_deudas(DB)
    IN  /\ Guardar(r.db)
        /\ res' = Resultado("sincronizar_todas", r.stats.total_clientes,
                            r.stats.clientes_corregidos, TRUE, "",
                            r.stats.diferencias)
        /\ todos_clientes' = cargar_clientes(r.db)

\* confirmar_sincronizacion whose sincronizar_todas_las_deudas raised (the
\* store failed at a query of the loop or at the commit)
SincronizarTodasInterrumpida ==
    \E n \in 1..Len(listar_activos(DB)) :
        LET r == sincronizar_todas_las_deudas_interrumpida(DB, n)
        IN  /\ fallos < MaxFallos
            /\ Escribir(r.db)
            /\ fallos' = fallos + 1
            /\ res' = Resultado("sincronizar_todas", r.stats.total_clientes,
                                r.stats.clientes_corregidos, FALSE, "excepcion",
                                r.stats.diferencias)
            /\ UNCHANGED <<todos_clientes, sesiones, tabla_sesiones>>

\* eliminar (clientes_page._confirmar_eliminacion): the customer picked in
\* the list is deactivated, the list reloaded
DesactivarCliente ==
    \E c \in DOMAIN todos_clientes :
        LET S == [DB EXCEPT !.clientes[c].activo = FALSE]
        IN  /\ Guardar(S)
            /\ res' = Resultado("desactivar_cliente", c, 0, TRUE, "", <<>>)
            /\ todos_clientes' = cargar_clientes(S)

\* sales and edited sales (after which the stored debt is stale), customers
\* being deactivated, and the reconciliation of all customers
NextSync ==
    \/ GuardarVenta
    \/ ActualizarVenta
    \/ DesactivarCliente
    \/ SincronizarTodas

SpecSync == Init /\ [][NextSync]_vars

\* sales, payments and edited sales, and the reconciliation of one customer
NextSyncUno ==
    \/ GuardarVenta
    \/ RegistrarAbono
    \/ ActualizarVenta
    \/ SincronizarDeuda

SpecSyncUno == Init /\ [][NextSyncUno]_vars

\* sales and edited sales, and the reconciliation of all customers liable
\* to fail before its commit
NextSyncFallos ==
    \/ GuardarVenta
    \/ ActualizarVenta
    \/ SincronizarTodas
    \/ SincronizarTodasInterrumpida

SpecSyncFallos == Init /\ [][NextSyncFallos]_vars

\* C21: sincronizar_deuda of a customer returns calcular_deuda_real of that
\* customer and stores it as the customer's deuda_total, so that right
\* afterwards the stored debt equals the real debt (which, in these
\* states, is also the balance by the payment ledger); no other customer,
\* no sale, no payment and no stock is changed.
C21_SincronizarDeuda ==
    /\ \A c \in Clientes :
        LET r == sincronizar_deuda(DB, c)
        IN  /\ r.deuda_real = calcular_deuda_real(DB, c)
            /\ r.db.clientes[c].deuda_total = r.deuda_real
            /\ calcular_deuda_real(r.db, c) = r.deuda_real
            /\ r.db.clientes[c].activo = clientes[c].activo
            /\ \A d \in Clientes \ {c} : r.db.clientes[d] = clientes[d]
            /\ r.db.ventas = ventas
            /\ r.db.abonos = abonos
            /\ r.db.productos = productos
    /\ res.op = "sincronizar_deuda" =>
        /\ clientes[res.a].deuda_total = res.m
        /\ res.m = calcular_deuda_real(DB, res.a)
        /\ res.m = DeudaPorLibro(FiadasPendientes(res.a))

\* a customer owing something was reconciled while the other customer's
\* stored debt is still off
C21_Witness ==
    /\ res.op = "sincronizar_deuda"
    /\ res.m > 0
    /\ \E d \in Clientes \ {res.a} :
        clientes[d].deuda_total # calcular_deuda_real(DB, d)

\* the active customers whose stored debt is off by more than the tolerance
ClientesDesfasados(S) ==
    { c \in DOMAIN S.clientes :
        /\ S.clientes[c].activo
        /\ Abs(S.clientes[c].deuda_total - calcular_deuda_real(S, c)) * 100
              > ToleranciaCentesimas }

\* C22: from any state, a second sincronizar_todas_las_deudas run right
\* after a first one corrects nobody: clientes_corregidos = 0, diferencias
\* is empty, and the store after it is the store before it.
C22_SincronizarDosVeces ==
    LET r1 == sincronizar_todas_las_deudas(DB)
        r2 == sincronizar_todas_las_deudas(r1.db)
    IN  /\ r2.stats.clientes_corregidos = 0
        /\ r2.stats.diferencias = <<>>
        /\ r2.db = r1.db
        /\ r2.stats.total_clientes = r1.stats.total_clientes

\* a first run has just corrected somebody
C22_Witness ==
    /\ res.op = "sincronizar_todas"
    /\ res.ok
    /\ res.m >= 1
    /\ sincronizar_todas_las_deudas(DB).stats.clientes_corregidos = 0

\* C23: sincronizar_todas_las_deudas visits the active customers and only
\* them; it corrects a customer iff the stored debt is more than the
\* tolerance away from the real debt; total_clientes is the number of
\* active customers, clientes_corregidos the number of entries of
\* diferencias, with one entry per corrected customer whose diferencia is
\* real debt minus stored debt; afterwards every active customer's stored
\* debt is within the tolerance of the real debt.  Inactive customers,
\* sales and payments are left alone.
C23_SincronizarTodas ==
    LET r      == sincronizar_todas_las_deudas(DB)
        d      == r.stats.diferencias
        ids    == { d[k].cliente_id : k \in DOMAIN d }
    IN  /\ r.stats.total_clientes
              = Cardinality({ c \in Clientes : clientes[c].activo })
        /\ r.stats.clientes_corregidos = Len(d)
        /\ ids = ClientesDesfasados(DB)
        /\ Len(d) = Cardinality(ids)
        /\ \A k \in DOMAIN d :
            /\ d[k].deuda_bd = clientes[d[k].cliente_id].deuda_total
            /\ d[k].deuda_real = calcular_deuda_real(DB, d[k].cliente_id)
            /\ d[k].diferencia = d[k].deuda_real - d[k].deuda_bd
            /\ r.db.clientes[d[k].cliente_id].deuda_total = d[k].deuda_real
        /\ \A c \in Clientes \ ids : r.db.clientes[c] = clientes[c]
        /\ ClientesDesfasados(r.db) = {}
        /\ r.db.ventas = ventas
        /\ r.db.abonos = abonos

\* a run has corrected an active customer and passed over an inactive one
\* whose stored debt is off
C23_Witness ==
    /\ res.op = "sincronizar_todas"
    /\ res.ok
    /\ res.m >= 1
    /\ res.a = 1
    /\ \E c \in Clientes :
        /\ ~clientes[c].activo
        /\ clientes[c].deuda_total # calcular_deuda_real(DB, c)

\* C24: when sincronizar_todas_las_deudas fails partway, the corrections it
\* had made for the customers visited before the failure are committed:
\* each of them has the real debt as its stored debt.
C24_CorreccionesPrevias ==
    (res.op = "sincronizar_todas" /\ res.err = "excepcion") =>
        \A k \in DOMAIN res.lista :
            clientes[res.lista[k].cliente_id].deuda_total
                = res.lista[k].deuda_real

\* ------------------------------------------ AbonoRepository.eliminar cut short
\* AbonoRepository.eliminar of a payment of a customer's sale, up to the
\* session.commit() inside ClienteRepository.actualizar_deuda: the sale and
\* the customer are written, session.delete(abono) has not run yet
AbonoRepository_eliminar_interrumpida(S, abono_id) ==
    LET abono == S.abonos[abono_id]
        venta == S.ventas[abono.venta_id]
        v1 == calcular_totales([venta EXCEPT !.abonado = @ - abono.monto], S.now)
        S1 == [S EXCEPT !.ventas[abono.venta_id] = v1]
    IN  actualizar_deuda(S1, venta.cliente_id, abono.monto)

\* confirmar_eliminar whose AbonoRepository.eliminar raised at its last
\* commit (or whose process ended before it): the except branch shows the
\* error
EliminarAbonoInterrumpido ==
    \E a \in DOMAIN abonos :
        /\ abonos[a].venta_id \in DOMAIN ventas
        /\ ventas[abonos[a].venta_id].cliente_id \in DOMAIN clientes
        /\ fallos < MaxFallos
        /\ Escribir(AbonoRepository_eliminar_interrumpida(DB, a))
        /\ fallos' = fallos + 1
        /\ res' = Resultado("abono_eliminar", a, abonos[a].monto, FALSE,
                            "excepcion", <<>>)
        /\ UNCHANGED <<todos_clientes, sesiones, tabla_sesiones>>

\* sales, payments and deleted payments, AbonoRepository.eliminar being
\* liable to fail between its two commits
NextAbonoFallos ==
    \/ GuardarVenta
    \/ RegistrarAbono
    \/ EliminarAbono
    \/ EliminarAbonoInterrumpido

SpecAbonoFallos == Init /\ [][NextAbonoFallos]_vars

\* C25: deleting a payment is one transaction: when it fails, the payment
\* record that is still there is still counted in its sale's abonado (no
\* committed state has the sale's abonado lowered and the customer's debt
\* raised while the payment record exists).
C25_EliminarAbonoAtomico ==
    (res.op = "abono_eliminar" /\ ~res.ok /\ res.a \in DOMAIN abonos) =>
        LET v == abonos[res.a].venta_id
        IN  /\ ventas[v].abonado = SumMonto(abonos, AbonosDe(v))
            /\ clientes[ventas[v].cliente_id].deuda_total
                  = calcular_deuda_real(DB, ventas[v].cliente_id)

\* C26: fecha_pago_completo of a sale is set by the operation that first
\* brings its resto to 0 or below (to the time of that operation) and no
\* later operation changes or clears it, also when a payment is deleted,
\* the sale is pending again and is then paid in full again; and in every
\* state pagado_completamente = (resto <= 0), a fully paid sale being
\* stamped.
C26_FechaPagoCompleto ==
    /\ [](\A i \in DOMAIN ventas :
            /\ ventas[i].pagado_completamente = (ventas[i].resto <= 0)
            /\ ventas[i].pagado_completamente
                  => ventas[i].fecha_pago_completo # NoFecha)
    /\ [][\A i \in (DOMAIN ventas) \cap (DOMAIN ventas') :
            /\ ventas[i].fecha_pago_completo # NoFecha
                  => ventas'[i].fecha_pago_completo = ventas[i].fecha_pago_completo
            /\ (ventas[i].fecha_pago_completo = NoFecha /\ ventas'[i].resto <= 0)
                  => /\ ventas'[i].fecha_pago_completo >= now
                     /\ ventas'[i].fecha_pago_completo <= now']_vars

\* a sale was paid in full, had its payment deleted and was paid in full
\* again by a later payment: it carries the stamp of the first time
C26_Witness ==
    /\ res.op = "abono_crear"
    /\ res.ok
    /\ res.a \in DOMAIN ventas
    /\ ventas[res.a].pagado_completamente
    /\ AbonosDe(res.a) = {2}
    /\ 1 \notin DOMAIN abonos
    /\ ventas[res.a].fecha_pago_completo + 1 < now

\* C27: the allocation of procesar_abono is all-or-nothing: when recording
\* the payment of one sale fails after payments of earlier sales of the
\* same allocation were recorded, none of them stays committed and the
\* customer's stored debt is what it was.
C27_RepartoTodoONada ==
    \A c \in DOMAIN cargar_clientes(DB), m \in 1..MaxMonto :
        LET r == procesar_abono(DB, cargar_clientes(DB)[c], c, m)
        IN  r.err = "excepcion" =>
                /\ r.db.abonos = abonos
                /\ r.db.ventas = ventas
                /\ r.db.clientes[c].deuda_total = clientes[c].deuda_total

\* ------------------------------------- the customer's debt read and written
\* guardar_abono of clerk k, between its two halves: actualizar_deuda reads
\* the customer (sales without a customer skip actualizar_deuda)
AbonoLeerCliente ==
    \E k \in Cajeros :
        /\ sesiones[k].pc = "leido"
        /\ sesiones[k].venta[1].cliente_id \in DOMAIN clientes
        /\ sesiones' = [sesiones EXCEPT
                           ![k] = AbonoRepository_crear_leer_cliente(DB, sesiones[k])]
        /\ UNCHANGED <<clientes, productos, ventas, abonos, nextVentaId,
                       nextAbonoId, now, fkEnforced, todos_clientes, res,
                       fallos, tabla_sesiones>>

\* guardar_abono of clerk k, last part: the debt is computed from what was
\* read, everything is written and committed; the session is closed
AbonoEscribirDeuda ==
    \E k \in Cajeros :
        /\ sesiones[k].pc = "cliente_leido"
        /\ Escribir(AbonoRepository_crear_escribir_deuda(DB, sesiones[k]))
        /\ sesiones' = [sesiones EXCEPT ![k] = SesionLibre]
        /\ res' = Resultado("abono_crear", sesiones[k].venta_id, sesiones[k].monto,
                            TRUE, "", <<>>)
        /\ UNCHANGED <<todos_clientes, fallos, tabla_sesiones>>

\* sales being stored while two clerks record payments, each in a session
\* of its own, the steps of one running between the reads and the write of
\* the other
NextDeuda ==
    \/ GuardarVenta
    \/ AbonoLeer
    \/ AbonoLeerCliente
    \/ AbonoEscribirDeuda

SpecDeuda == Init /\ [][NextDeuda]_vars

\* the credit sales of customer c
FiadasDe(c) ==
    { i \in DOMAIN ventas : ventas[i].cliente_id = c /\ ventas[i].es_fiado }

\* C28: no adjustment of a customer's stored debt is lost when two clerks
\* record payments for the customer at the same time, each in its own
\* session: in every interleaving the stored debt is the total of the
\* customer's credit sales minus every payment recorded on them.
C28_DeudaSinPerdidas ==
    \A c \in Clientes :
        clientes[c].deuda_total = DeudaPorLibro(FiadasDe(c))

\* ------------------------------------------------ payments of deleted sales
\* sales and payments stored and deleted, the payment deletions that
\* AbonoRepository.eliminar turned down shown as well
NextHuerfanos ==
    \/ GuardarVenta
    \/ RegistrarAbono
    \/ EliminarVenta
    \/ EliminarAbono
    \/ EliminarAbonoRechazado

SpecHuerfanos == Init /\ [][NextHuerfanos]_vars

\* the payments whose sale no longer exists
AbonosHuerfanos == { a \in DOMAIN abonos : abonos[a].venta_id \notin DOMAIN ventas }

\* C29: AbonoRepository.eliminar returns False and changes nothing when the
\* payment id does not exist or when the payment's sale no longer exists;
\* so a payment whose sale is gone is never removed by deleting payments: it
\* is still there, unchanged, after every step.
C29_EliminarSinVenta ==
    /\ [](\A a \in AbonoIds \cup {nextAbonoId} :
            (a \notin DOMAIN abonos \/ a \in AbonosHuerfanos) =>
                LET r == AbonoRepository_eliminar(DB, a)
                IN  ~r.ok /\ r.db = DB)
    /\ [][/\ \A a \in AbonosHuerfanos :
                a \in DOMAIN abonos' /\ abonos'[a] = abonos[a]
          /\ (res'.op = "abono_eliminar" /\ ~res'.ok) => DB' = DB]_vars

\* every payment id exists, one of them belongs to a sale that was
\* deleted, and a deletion of a payment has just been turned down
C29_Witness ==
    /\ res.op = "abono_eliminar"
    /\ ~res.ok
    /\ DOMAIN abonos = AbonoIds
    /\ AbonosHuerfanos # {}

\* ------------------------------------------------------------ login sessions
Usuarios == {1, 2}           \* users (the admin of main.py and one more)

\* duracion_horas, the default of iniciar_sesion and what login_page passes
duracion_horas == 8

\* Sesion.generar_token: a digest of the user id and of time.time(), which
\* is later at every call; n stands for that reading
generar_token(usuario_id, n) == <<usuario_id, n>>

Tokens == { generar_token(u, n) : u \in Usuarios, n \in 1..MaxSesiones }

\* Sesion.crear_nueva at time t (activa defaults to True)
crear_nueva(usuario_id, n, t) ==
    [usuario_id |-> usuario_id, token |-> generar_token(usuario_id, n),
     fecha_inicio |-> t, fecha_expiracion |-> t + duracion_horas,
     activa |-> TRUE]

\* Sesion.es_valida at time t
es_valida(sesion, t) == sesion.activa /\ t < sesion.fecha_expiracion

\* Sesion.cerrar
cerrar(sesion) == [sesion EXCEPT !.activa = FALSE]

\* SesionRepository.crear: the row gets the next id
SesionRepository_crear(T, sesion) == Append(T, sesion)

\* SesionRepository.obtener_por_token: the id of the row, NoId for None
obtener_por_token(T, token) ==
    IF \E i \in DOMAIN T : T[i].token = token
    THEN CHOOSE i \in DOMAIN T : T[i].token = token
    ELSE NoId

\* SesionRepository.validar_sesion: the user id, NoId for None
validar_sesion(T, token, t) ==
    LET i == obtener_por_token(T, token)
    IN  IF i = NoId \/ ~es_valida(T[i], t) THEN NoId ELSE T[i].usuario_id

\* SesionRepository.cerrar_sesion
cerrar_sesion(T, token) ==
    LET i == obtener_por_token(T, token)
    IN  IF i # NoId
        THEN [ok |-> TRUE, tabla |-> [T EXCEPT ![i] = cerrar(@)]]
        ELSE [ok |-> FALSE, tabla |-> T]

\* SesionRepository.cerrar_sesiones_usuario
cerrar_sesiones_usuario(T, usuario_id) ==
    [i \in DOMAIN T |->
        IF T[i].usuario_id = usuario_id /\ T[i].activa THEN cerrar(T[i]) ELSE T[i]]

\* SesionRepository.limpiar_sesiones_expiradas at time t
limpiar_sesiones_expiradas(T, t) ==
    [i \in DOMAIN T |->
        IF T[i].activa /\ T[i].fecha_expiracion < t THEN cerrar(T[i]) ELSE T[i]]

\* iniciar_sesion that leaves the user's earlier sessions open
iniciar_sesion_sin_cerrar(T, usuario_id, t) ==
    SesionRepository_crear(T, crear_nueva(usuario_id, Len(T) + 1, t))

\* SesionRepository.iniciar_sesion at time t
iniciar_sesion(T, usuario_id, t) ==
    SesionRepository_crear(cerrar_sesiones_usuario(T, usuario_id),
                           crear_nueva(usuario_id, Len(T) + 1, t))

\* what the operations on login sessions leave alone
SoloSesiones ==
    UNCHANGED <<clientes, productos, ventas, abonos, nextVentaId, nextAbonoId,
                fkEnforced, todos_clientes, sesiones, fallos>>

\* login (login_page): SesionRepository.iniciar_sesion
IniciarSesion ==
    \E u \in Usuarios :
        /\ Len(tabla_sesiones) < MaxSesiones
        /\ tabla_sesiones' = iniciar_sesion(tabla_sesiones, u, now)
        /\ res' = Resultado("iniciar_sesion", u, Len(tabla_sesiones) + 1, TRUE, "", <<>>)
        /\ UNCHANGED now
        /\ SoloSesiones

\* logout (main._cerrar_sesion): SesionRepository.cerrar_sesion
CerrarSesion ==
    \E token \in Tokens :
        LET r == cerrar_sesion(tabla_sesiones, token)
        IN  /\ tabla_sesiones' = r.tabla
            /\ res' = Resultado("cerrar_sesion", obtener_por_token(tabla_sesiones, token),
                                0, r.ok, "", <<>>)
            /\ UNCHANGED now
            /\ SoloSesiones

\* SesionRepository.cerrar_sesiones_usuario
CerrarSesionesUsuario ==
    \E u \in Usuarios :
        /\ tabla_sesiones' = cerrar_sesiones_usuario(tabla_sesiones, u)
        /\ res' = Resultado("cerrar_sesiones_usuario", u, 0, TRUE, "", <<>>)
        /\ UNCHANGED now
        /\ SoloSesiones

\* SesionRepository.limpiar_sesiones_expiradas
LimpiarSesionesExpiradas ==
    /\ tabla_sesiones' = limpiar_sesiones_expiradas(tabla_sesiones, now)
    /\ res' = Resultado("limpiar_sesiones_expiradas", NoId, 0, TRUE, "", <<>>)
    /\ UNCHANGED now
    /\ SoloSesiones

\* the application started with a stored token (main): validar_sesion, which
\* writes fecha_ultimo_uso only
ValidarSesion ==
    \E token \in Tokens :
        LET u == validar_sesion(tabla_sesiones, token, now)
        IN  /\ res' = Resultado("validar_sesion", u, 0, u # NoId, "", <<>>)
            /\ UNCHANGED <<tabla_sesiones, now>>
            /\ SoloSesiones

\* hours go by
PasaElTiempo ==
    \E d \in 1..MaxReloj :
        /\ now + d <= MaxReloj
        /\ now' = now + d
        /\ UNCHANGED <<tabla_sesiones, res>>
        /\ SoloSesiones

NextSesiones ==
    \/ IniciarSesion
    \/ CerrarSesion
    \/ CerrarSesionesUsuario
    \/ LimpiarSesionesExpiradas
    \/ ValidarSesion
    \/ PasaElTiempo

SpecSesiones == Init /\ [][NextSesiones]_vars

\* the rows of user u
SesionesDe(u) == { i \in DOMAIN tabla_sesiones : tabla_sesiones[i].usuario_id = u }

\* C30: with iniciar_sesion, cerrar_sesion, cerrar_sesiones_usuario and
\* limpiar_sesiones_expiradas run one at a time, every user has at most one
\* session with activa = TRUE, and it is the one the user's latest
\* iniciar_sesion created; a session that was closed is never active nor
\* valid again.
C30_UnaSesionActiva ==
    /\ [](\A u \in Usuarios :
            LET activas == { i \in SesionesDe(u) : tabla_sesiones[i].activa }
            IN  /\ Cardinality(activas) <= 1
                /\ \A i \in activas : \A j \in SesionesDe(u) : j <= i)
    /\ [][\A i \in DOMAIN tabla_sesiones :
            /\ i \in DOMAIN tabla_sesiones'
            /\ tabla_sesiones'[i].usuario_id = tabla_sesiones[i].usuario_id
            /\ ~tabla_sesiones[i].activa =>
                  /\ ~tabla_sesiones'[i].activa
                  /\ ~es_valida(tabla_sesiones'[i], now')]_vars

\* a user logged in twice: the first session is closed, the second is the
\* active one, while another session, expired, was closed by the clean-up
C30_Witness ==
    /\ res.op = "iniciar_sesion"
    /\ \E i, j \in SesionesDe(res.a) :
        /\ i < j
        /\ ~tabla_sesiones[i].activa
        /\ tabla_sesiones[j].activa
        /\ res.m = j
    /\ \E k \in DOMAIN tabla_sesiones :
        /\ tabla_sesiones[k].usuario_id # res.a
        /\ ~tabla_sesiones[k].activa
        /\ tabla_sesiones[k].fecha_expiracion < now

====
